---- MODULE Spec2Model ----
(***************************************************************************)
(* A model of scripts/train.py: the command-line entry point, main, and    *)
(* the two name-to-constructor factories build_scheduler and               *)
(* build_algorithm.  Every call the script makes into the framework is     *)
(* recorded in `log`, in call order, with its arguments and whether it     *)
(* returned or raised.  Calls that build framework objects, touch devices, *)
(* files or the process group, or train, either return or raise; the       *)
(* logging, seeding and rank-query helpers return.                         *)
(***************************************************************************)
EXTENDS Integers, Sequences, FiniteSets, TLC

VARIABLES argv, env, pc, err, log, yaml_path, args_list, cfg, scheduler, algorithms, trainer

vars == <<argv, env, pc, err, log, yaml_path, args_list, cfg, scheduler, algorithms, trainer>>

(***************************************************************************)
(* Bounds and value sets                                                   *)
(***************************************************************************)
MaxOverrides == 2

MaxAlgorithms == 2

MaxLoadedAlgorithms == 1

None == <<>>

Some(x) == <<x>>

ScriptName == "scripts/train.py"

ConfigPaths == {"train_config.yaml"}

Options == {"--model.n_layers=5", "--dry_run"}

RunNames == {"my-run"}

EnvRunNames == {"composer-run"}

SchedulerNames == {"constant_with_warmup", "cosine_with_warmup", "linear_decay_with_warmup", "exponential"}

\* (t_warmup, alpha_f) settings
SchedulerParams == {<<"100ba", "0.0">>, <<"1ep", "0.1">>}

AlgorithmNames == {"gradient_clipping", "fused_layernorm", "gated_linear_units", "low_precision_layernorm", "alibi"}

KwargsMaps == {<<>>, [clipping_threshold |-> "1.0"]}

SeqsUpTo(S, n) == UNION {[1..k -> S] : k \in 0..n}

\* sys.argv: the script name, then at most a config path and MaxOverrides options
Argvs == {<<ScriptName>>} \cup {<<ScriptName, p>> \o o : p \in ConfigPaths, o \in SeqsUpTo(Options, MaxOverrides)}

\* os.environ restricted to the one variable the script reads
Environs == {<<>>} \cup {[COMPOSER_RUN_NAME |-> v] : v \in EnvRunNames}

SchedulerConfigs == {[name |-> n, t_warmup |-> p[1], alpha_f |-> p[2]] : n \in SchedulerNames, p \in SchedulerParams}

\* the items of a dict of algorithm name -> kwargs: insertion-ordered, keys distinct
AlgorithmItems == {s \in SeqsUpTo(AlgorithmNames \X KwargsMaps, MaxAlgorithms) : \A i, j \in 1..Len(s) : s[i][1] = s[j][1] => i = j}

TrainConfigs == [run_name : {None} \cup {Some(r) : r \in RunNames}, scheduler : SchedulerConfigs, algorithms : {None} \cup {Some(a) : a \in AlgorithmItems}, dry_run : BOOLEAN, wandb : {None, Some("wandb")}]

\* the configurations TrainConfig.load hands to the script: one warmup setting, short algorithm maps
LoadedConfigs == {c \in TrainConfigs : /\ c.scheduler.t_warmup = "100ba"
                                       /\ c.wandb = None
                                       /\ (c.algorithms # None => Len(c.algorithms[1]) <= MaxLoadedAlgorithms)}

\* what the four rank queries return: a single process, and one process of a 2x2 job
RankInfos == {[local_rank |-> 0, local_world_size |-> 1, global_rank |-> 0, world_size |-> 1],
              [local_rank |-> 1, local_world_size |-> 2, global_rank |-> 3, world_size |-> 4]}

(***************************************************************************)
(* Calls and their outcomes                                                *)
(***************************************************************************)
Entry(fn, args, out) == [fn |-> fn, args |-> args, out |-> out]

Construct(cls, kwargs) == [kind |-> "call", cls |-> cls, kwargs |-> kwargs]

Raise(exc) == [kind |-> "raise", exc |-> exc]

\* dolma.util.clean_opt, kept uninterpreted: the result is the term clean_opt(s)
clean_opt(s) == <<"clean_opt", s>>

\* a lookup that ignores the environment
environ_get_default(e, key, default) == default

environ_get(e, key, default) == IF key \in DOMAIN e THEN e[key] ELSE default

\* build_scheduler raising the builtin error kind for an unknown name
build_scheduler_value_error(c) ==
  IF c.name = "constant_with_warmup" THEN Construct("ConstantWithWarmupScheduler", [t_warmup |-> c.t_warmup])
  ELSE IF c.name = "cosine_with_warmup" THEN Construct("CosineAnnealingWithWarmupScheduler", [t_warmup |-> c.t_warmup, alpha_f |-> c.alpha_f])
  ELSE IF c.name = "linear_decay_with_warmup" THEN Construct("LinearWithWarmupScheduler", [t_warmup |-> c.t_warmup, alpha_f |-> c.alpha_f])
  ELSE Raise("ValueError")

\* build_scheduler with the cosine and linear constructors exchanged
build_scheduler_swapped(c) ==
  IF c.name = "constant_with_warmup" THEN Construct("ConstantWithWarmupScheduler", [t_warmup |-> c.t_warmup])
  ELSE IF c.name = "cosine_with_warmup" THEN Construct("LinearWithWarmupScheduler", [t_warmup |-> c.t_warmup, alpha_f |-> c.alpha_f])
  ELSE IF c.name = "linear_decay_with_warmup" THEN Construct("CosineAnnealingWithWarmupScheduler", [t_warmup |-> c.t_warmup, alpha_f |-> c.alpha_f])
  ELSE Raise("DolmaConfigurationError")

build_scheduler(c) ==
  IF c.name = "constant_with_warmup" THEN Construct("ConstantWithWarmupScheduler", [t_warmup |-> c.t_warmup])
  ELSE IF c.name = "cosine_with_warmup" THEN Construct("CosineAnnealingWithWarmupScheduler", [t_warmup |-> c.t_warmup, alpha_f |-> c.alpha_f])
  ELSE IF c.name = "linear_decay_with_warmup" THEN Construct("LinearWithWarmupScheduler", [t_warmup |-> c.t_warmup, alpha_f |-> c.alpha_f])
  ELSE Raise("DolmaConfigurationError")

\* build_algorithm dropping the keyword arguments of one constructor
build_algorithm_drops_kwargs(name, kwargs) ==
  IF name = "gradient_clipping" THEN Construct("GradientClipping", kwargs)
  ELSE IF name = "fused_layernorm" THEN Construct("FusedLayerNorm", kwargs)
  ELSE IF name = "gated_linear_units" THEN Construct("GatedLinearUnits", <<>>)
  ELSE IF name = "low_precision_layernorm" THEN Construct("LowPrecisionLayerNorm", kwargs)
  ELSE Raise("ValueError")

build_algorithm(name, kwargs) ==
  IF name = "gradient_clipping" THEN Construct("GradientClipping", kwargs)
  ELSE IF name = "fused_layernorm" THEN Construct("FusedLayerNorm", kwargs)
  ELSE IF name = "gated_linear_units" THEN Construct("GatedLinearUnits", kwargs)
  ELSE IF name = "low_precision_layernorm" THEN Construct("LowPrecisionLayerNorm", kwargs)
  ELSE Raise("ValueError")

\* (cfg.algorithms or {}).items()
algorithm_items(c) == IF c.algorithms = None THEN <<>> ELSE c.algorithms[1]

(***************************************************************************)
(* Steps                                                                   *)
(***************************************************************************)
\* an external call that returns: its entries are logged and control moves on
Returns(entries, next) == /\ log' = log \o entries
                          /\ pc' = next
                          /\ err' = err

\* an external call that raises: entries before it are logged, then the raising one
Raises(before, fn, args) == /\ log' = log \o before \o <<Entry(fn, args, "raised")>>
                            /\ pc' = "raised"
                            /\ err' = "FrameworkError"

\* a local raise statement
RaiseLocal(exc) == /\ log' = log
                   /\ pc' = "raised"
                   /\ err' = exc

Init == /\ argv \in Argvs
        /\ env \in Environs
        /\ pc = "start"
        /\ err = "none"
        /\ log = <<>>
        /\ yaml_path = None
        /\ args_list = None
        /\ cfg = None
        /\ scheduler = None
        /\ algorithms = <<>>
        /\ trainer = None

\* line 172
PrepareCli == /\ pc = "start"
              /\ Returns(<<Entry("prepare_cli_environment", <<>>, "returned")>>, "parse")
              /\ UNCHANGED <<argv, env, yaml_path, args_list, cfg, scheduler, algorithms, trainer>>

\* ParseArgs demanding an option after the config path
ParseArgs_needs_option == /\ pc = "parse"
                          /\ IF Len(argv) < 3
                               THEN RaiseLocal("DolmaCliError") /\ UNCHANGED <<yaml_path, args_list>>
                               ELSE /\ yaml_path' = argv[2]
                                    /\ args_list' = SubSeq(argv, 3, Len(argv))
                                    /\ log' = log
                                    /\ pc' = "load"
                                    /\ err' = err
                          /\ UNCHANGED <<argv, env, cfg, scheduler, algorithms, trainer>>

\* ParseArgs taking sys.argv[1:] as the options
ParseArgs_keeps_path == /\ pc = "parse"
                        /\ IF Len(argv) < 2
                             THEN RaiseLocal("DolmaCliError") /\ UNCHANGED <<yaml_path, args_list>>
                             ELSE /\ yaml_path' = argv[2]
                                  /\ args_list' = SubSeq(argv, 2, Len(argv))
                                  /\ log' = log
                                  /\ pc' = "load"
                                  /\ err' = err
                        /\ UNCHANGED <<argv, env, cfg, scheduler, algorithms, trainer>>

\* lines 174-177
ParseArgs == /\ pc = "parse"
             /\ IF Len(argv) < 2
                  THEN RaiseLocal("DolmaCliError") /\ UNCHANGED <<yaml_path, args_list>>
                  ELSE /\ yaml_path' = argv[2]
                       /\ args_list' = SubSeq(argv, 3, Len(argv))
                       /\ log' = log
                       /\ pc' = "load"
                       /\ err' = err
             /\ UNCHANGED <<argv, env, cfg, scheduler, algorithms, trainer>>

CleanCalls(args) == [i \in 1..Len(args) |-> Entry("clean_opt", args[i], "returned")]

CleanedOpts(args) == [i \in 1..Len(args) |-> clean_opt(args[i])]

\* line 179
LoadConfig == /\ pc = "load"
              /\ LET loadArgs == [path |-> yaml_path, overrides |-> CleanedOpts(args_list)]
                 IN \/ \E c \in LoadedConfigs :
                         /\ Returns(CleanCalls(args_list) \o <<[fn |-> "TrainConfig.load", args |-> loadArgs, out |-> "returned", ret |-> c]>>, "call_main")
                         /\ cfg' = c
                    \/ Raises(CleanCalls(args_list), "TrainConfig.load", loadArgs) /\ cfg' = cfg
              /\ UNCHANGED <<argv, env, yaml_path, args_list, scheduler, algorithms, trainer>>

\* line 180
CallMain == /\ pc = "call_main"
            /\ Returns(<<Entry("main", cfg, "entered")>>, "seed")
            /\ UNCHANGED <<argv, env, yaml_path, args_list, cfg, scheduler, algorithms, trainer>>

(***************************************************************************)
(* main                                                                    *)
(***************************************************************************)
Ok(fn, args) == Entry(fn, args, "returned")

\* SeedAll going straight on to the run name
SeedAll_skips_dist == /\ pc = "seed"
                      /\ Returns(<<Ok("echo.info", "Configuration:"), Ok("reproducibility.seed_all", "cfg.seed")>>, "run_name")
                      /\ UNCHANGED <<argv, env, yaml_path, args_list, cfg, scheduler, algorithms, trainer>>

\* lines 76-78
SeedAll == /\ pc = "seed"
           /\ Returns(<<Ok("echo.info", "Configuration:"), Ok("reproducibility.seed_all", "cfg.seed")>>, "init_dist")
           /\ UNCHANGED <<argv, env, yaml_path, args_list, cfg, scheduler, algorithms, trainer>>

\* line 79
InitializeDist == /\ pc = "init_dist"
                  /\ LET dev == <<Ok("get_device", None)>>
                     IN \/ Returns(dev \o <<Ok("dist.initialize_dist", "device")>>, "run_name")
                        \/ Raises(dev, "dist.initialize_dist", "device")
                  /\ UNCHANGED <<argv, env, yaml_path, args_list, cfg, scheduler, algorithms, trainer>>

\* lines 82-83
RunName == /\ pc = "run_name"
           /\ IF cfg.run_name = None
                THEN /\ cfg' = [cfg EXCEPT !.run_name = Some(environ_get(env, "COMPOSER_RUN_NAME", "llm"))]
                     /\ Returns(<<Ok("os.environ.get", "COMPOSER_RUN_NAME")>>, "batch_size")
                ELSE /\ cfg' = cfg
                     /\ Returns(<<>>, "batch_size")
           /\ UNCHANGED <<argv, env, yaml_path, args_list, scheduler, algorithms, trainer>>

\* lines 86-92
UpdateBatchSize == /\ pc = "batch_size"
                   /\ \/ Returns(<<Ok("update_batch_size_info", "cfg"), Ok("echo.info", "batch size")>>, "model")
                      \/ Raises(<<>>, "update_batch_size_info", "cfg")
                   /\ UNCHANGED <<argv, env, yaml_path, args_list, cfg, scheduler, algorithms, trainer>>

\* lines 95-100
BuildModel == /\ pc = "model"
              /\ \/ Returns(<<Ok("ComposerDolmaGPT", "cfg.model"), Ok("echo.info", "parameters"), Ok("echo.info", "non-embedding parameters")>>, "optimizer")
                 \/ Raises(<<>>, "ComposerDolmaGPT", "cfg.model")
              /\ UNCHANGED <<argv, env, yaml_path, args_list, cfg, scheduler, algorithms, trainer>>

\* line 103
ConfigureOptimizer == /\ pc = "optimizer"
                      /\ \/ Returns(<<Ok("configure_optimizer", "cfg.optimizer")>>, "scheduler")
                         \/ Raises(<<>>, "configure_optimizer", "cfg.optimizer")
                      /\ UNCHANGED <<argv, env, yaml_path, args_list, cfg, scheduler, algorithms, trainer>>

\* line 106
BuildScheduler == /\ pc = "scheduler"
                  /\ LET r == build_scheduler(cfg.scheduler)
                     IN IF r.kind = "raise"
                          THEN RaiseLocal(r.exc) /\ scheduler' = scheduler
                          ELSE \/ Returns(<<Ok(r.cls, r.kwargs)>>, "dataloader") /\ scheduler' = Some(r)
                               \/ Raises(<<>>, r.cls, r.kwargs) /\ scheduler' = scheduler
                  /\ UNCHANGED <<argv, env, yaml_path, args_list, cfg, algorithms, trainer>>

\* line 109
BuildDataloader == /\ pc = "dataloader"
                   /\ \/ Returns(<<Ok("build_dataloader", "cfg")>>, IF algorithm_items(cfg) = <<>> THEN "callbacks" ELSE "algorithms")
                      \/ Raises(<<>>, "build_dataloader", "cfg")
                   /\ UNCHANGED <<argv, env, yaml_path, args_list, cfg, scheduler, algorithms, trainer>>

\* line 112, one iteration of the comprehension
BuildAlgorithm == /\ pc = "algorithms"
                  /\ LET items == algorithm_items(cfg)
                         item == items[Len(algorithms) + 1]
                         r == build_algorithm(item[1], item[2])
                     IN IF r.kind = "raise"
                          THEN RaiseLocal(r.exc) /\ algorithms' = algorithms
                          ELSE \/ /\ Returns(<<Ok(r.cls, r.kwargs)>>, IF Len(algorithms) + 1 = Len(items) THEN "callbacks" ELSE "algorithms")
                                  /\ algorithms' = Append(algorithms, r)
                               \/ Raises(<<>>, r.cls, r.kwargs) /\ algorithms' = algorithms
                  /\ UNCHANGED <<argv, env, yaml_path, args_list, cfg, scheduler, trainer>>

\* lines 115-120
BuildLoggers == /\ pc = "callbacks"
                /\ LET base == <<Ok("SpeedMonitorMFU", <<>>), Ok("DolmaConsoleLogger", "cfg.console_log_interval")>>
                   IN IF cfg.wandb # None
                        THEN \/ Returns(base \o <<Ok("WandBLogger", cfg.wandb)>>, "trainer")
                             \/ Raises(base, "WandBLogger", cfg.wandb)
                        ELSE Returns(base, "trainer")
                /\ UNCHANGED <<argv, env, yaml_path, args_list, cfg, scheduler, algorithms, trainer>>

TrainerArgs == [run_name |-> cfg.run_name, schedulers |-> scheduler, algorithms |-> algorithms]

\* lines 123-149
BuildTrainer == /\ pc = "trainer"
                /\ \/ Returns(<<Ok("Trainer", TrainerArgs)>>, "rank_info") /\ trainer' = Some(TrainerArgs)
                   \/ Raises(<<>>, "Trainer", TrainerArgs) /\ trainer' = trainer
                /\ UNCHANGED <<argv, env, yaml_path, args_list, cfg, scheduler, algorithms>>

\* lines 151-158
RankInfo == /\ pc = "rank_info"
            /\ \E info \in RankInfos :
                 Returns(<<Ok("dist.get_local_rank", <<>>), Ok("dist.get_local_world_size", <<>>),
                           Ok("dist.get_global_rank", <<>>), Ok("dist.get_world_size", <<>>),
                           Ok("echo.info", info)>>,
                         "fit")
            /\ UNCHANGED <<argv, env, yaml_path, args_list, cfg, scheduler, algorithms, trainer>>

\* Fit with the failure of trainer.fit swallowed
Fit_swallows == /\ pc = "fit"
                /\ IF ~cfg.dry_run
                     THEN \/ Returns(<<Ok("trainer.fit", <<>>)>>, "close")
                          \/ Returns(<<Entry("trainer.fit", <<>>, "raised")>>, "close")
                     ELSE Returns(<<>>, "close")
                /\ UNCHANGED <<argv, env, yaml_path, args_list, cfg, scheduler, algorithms, trainer>>

\* Fit without the dry-run test
Fit_ignores_dry_run == /\ pc = "fit"
                       /\ \/ Returns(<<Ok("trainer.fit", <<>>)>>, "close")
                          \/ Raises(<<>>, "trainer.fit", <<>>)
                       /\ UNCHANGED <<argv, env, yaml_path, args_list, cfg, scheduler, algorithms, trainer>>

\* lines 160-161
Fit == /\ pc = "fit"
       /\ IF ~cfg.dry_run
            THEN \/ Returns(<<Ok("trainer.fit", <<>>)>>, "close")
                 \/ Raises(<<>>, "trainer.fit", <<>>)
            ELSE Returns(<<>>, "close")
       /\ UNCHANGED <<argv, env, yaml_path, args_list, cfg, scheduler, algorithms, trainer>>

\* line 163
Close == /\ pc = "close"
         /\ \/ Returns(<<Ok("trainer.close", <<>>)>>, "success")
            \/ Raises(<<>>, "trainer.close", <<>>)
         /\ UNCHANGED <<argv, env, yaml_path, args_list, cfg, scheduler, algorithms, trainer>>

\* lines 165-168
Success == /\ pc = "success"
           /\ Returns(<<Ok("echo.success", IF cfg.dry_run THEN "Dry run complete" ELSE "Training complete")>>, "done")
           /\ UNCHANGED <<argv, env, yaml_path, args_list, cfg, scheduler, algorithms, trainer>>

\* main(cfg), lines 67-168
main == \/ SeedAll
        \/ InitializeDist
        \/ RunName
        \/ UpdateBatchSize
        \/ BuildModel
        \/ ConfigureOptimizer
        \/ BuildScheduler
        \/ BuildDataloader
        \/ BuildAlgorithm
        \/ BuildLoggers
        \/ BuildTrainer
        \/ RankInfo
        \/ Fit
        \/ Close
        \/ Success

\* main called directly with any configuration
InitMain == /\ argv = <<ScriptName>>
            /\ env \in Environs
            /\ pc = "seed"
            /\ err = "none"
            /\ cfg \in TrainConfigs
            /\ log = <<Entry("main", cfg, "entered")>>
            /\ yaml_path = None
            /\ args_list = None
            /\ scheduler = None
            /\ algorithms = <<>>
            /\ trainer = None

Next == PrepareCli \/ ParseArgs \/ LoadConfig \/ CallMain \/ main

Spec == Init /\ [][Next]_vars

NextMain == main

SpecMain == InitMain /\ [][NextMain]_vars
(***************************************************************************)
(* Properties                                                              *)
(***************************************************************************)
Calls(fn) == {i \in DOMAIN log : log[i].fn = fn}

CallsOf(fns) == {i \in DOMAIN log : log[i].fn \in fns}

Count(fn) == Cardinality(Calls(fn))

Returned(fn) == \E i \in DOMAIN log : log[i].fn = fn /\ log[i].out = "returned"

RecognizedSchedulers == {"constant_with_warmup", "cosine_with_warmup", "linear_decay_with_warmup"}

RecognizedAlgorithms == {"gradient_clipping", "fused_layernorm", "gated_linear_units", "low_precision_layernorm"}

SchedulerClasses == {"ConstantWithWarmupScheduler", "CosineAnnealingWithWarmupScheduler", "LinearWithWarmupScheduler"}

AlgorithmClasses == {"GradientClipping", "FusedLayerNorm", "GatedLinearUnits", "LowPrecisionLayerNorm"}

IsAlgorithmCall(e) == e.fn \in AlgorithmClasses

AlgorithmCalls == SelectSeq(log, IsAlgorithmCall)

IsCleanOpt(e) == e.fn = "clean_opt"

\* the configuration main was entered with
MainCfg == log[CHOOSE i \in Calls("main") : TRUE].args

\* control has gone through line 106
SchedulerStepDone == Returned("configure_optimizer") /\ pc # "scheduler"

\* build_algorithm has just refused the next item of cfg.algorithms
AlgorithmRejected == /\ Returned("build_dataloader")
                     /\ pc # "algorithms"
                     /\ Len(algorithms) < Len(algorithm_items(cfg))
                     /\ algorithm_items(cfg)[Len(algorithms) + 1][1] \notin RecognizedAlgorithms

\* C1: build_algorithm called with a name outside the four recognized ones raises the
\* configuration error (the kind build_scheduler raises) and constructs no algorithm object.
C1_UnknownAlgorithmIsConfigurationError ==
  AlgorithmRejected => /\ err = "DolmaConfigurationError"
                       /\ Len(AlgorithmCalls) = Len(algorithms)

\* C2: build_scheduler on a name outside the three recognized ones raises
\* DolmaConfigurationError and constructs no scheduler; on a recognized name it
\* never raises that error.
C2_UnknownSchedulerIsConfigurationError ==
  /\ (SchedulerStepDone /\ cfg.scheduler.name \notin RecognizedSchedulers) =>
        /\ pc = "raised"
        /\ err = "DolmaConfigurationError"
        /\ CallsOf(SchedulerClasses) = {}
        /\ scheduler = None
  /\ cfg.scheduler.name \in RecognizedSchedulers => err # "DolmaConfigurationError"

C2_Witness == /\ SchedulerStepDone
              /\ cfg.scheduler.name = "exponential"
              /\ err = "DolmaConfigurationError"

ExpectedSchedulerCall(c) ==
  CASE c.name = "constant_with_warmup" -> [fn |-> "ConstantWithWarmupScheduler", args |-> [t_warmup |-> c.t_warmup]]
    [] c.name = "cosine_with_warmup" -> [fn |-> "CosineAnnealingWithWarmupScheduler", args |-> [t_warmup |-> c.t_warmup, alpha_f |-> c.alpha_f]]
    [] c.name = "linear_decay_with_warmup" -> [fn |-> "LinearWithWarmupScheduler", args |-> [t_warmup |-> c.t_warmup, alpha_f |-> c.alpha_f]]

\* C3: for a recognized scheduler name build_scheduler calls exactly one constructor,
\* the one matching the name, with cfg.t_warmup (and, except for the constant
\* scheduler, cfg.alpha_f) passed unchanged.
C3_SchedulerConstructorMatchesName ==
  LET made == CallsOf(SchedulerClasses)
  IN IF ~SchedulerStepDone THEN made = {}
     ELSE cfg.scheduler.name \in RecognizedSchedulers =>
            LET want == ExpectedSchedulerCall(cfg.scheduler)
            IN /\ Cardinality(made) = 1
               /\ \A i \in made :
                    /\ log[i].fn = want.fn
                    /\ log[i].args = want.args
                    /\ log[i].out = "returned" => scheduler = Some(Construct(want.fn, want.args))

C3_Witness == /\ pc = "dataloader"
              /\ cfg.scheduler = [name |-> "linear_decay_with_warmup", t_warmup |-> "1ep", alpha_f |-> "0.1"]
              /\ scheduler = Some(Construct("LinearWithWarmupScheduler", [t_warmup |-> "1ep", alpha_f |-> "0.1"]))

ExpectedAlgorithmClass(name) ==
  CASE name = "gradient_clipping" -> "GradientClipping"
    [] name = "fused_layernorm" -> "FusedLayerNorm"
    [] name = "gated_linear_units" -> "GatedLinearUnits"
    [] name = "low_precision_layernorm" -> "LowPrecisionLayerNorm"

\* C4: for each recognized algorithm name build_algorithm calls exactly one
\* constructor, the one matching the name, with exactly the given keyword map.
C4_AlgorithmConstructorMatchesName ==
  LET items == algorithm_items(cfg)
      calls == AlgorithmCalls
  IN /\ Len(calls) <= Len(items)
     /\ \A i \in 1..Len(calls) :
          /\ items[i][1] \in RecognizedAlgorithms
          /\ calls[i].fn = ExpectedAlgorithmClass(items[i][1])
          /\ calls[i].args = items[i][2]
          /\ i < Len(calls) => calls[i].out = "returned"
     /\ Len(algorithms) = Cardinality({i \in 1..Len(calls) : calls[i].out = "returned"})
     /\ \A i \in 1..Len(algorithms) : algorithms[i] = Construct(calls[i].fn, items[i][2])
     /\ (Returned("build_dataloader") /\ pc \notin {"algorithms", "raised"}) => Len(calls) = Len(items)

C4_Witness == /\ pc = "callbacks"
              /\ Len(algorithms) = 2
              /\ algorithms[1] = Construct("FusedLayerNorm", <<>>)
              /\ algorithms[2] = Construct("GatedLinearUnits", [clipping_threshold |-> "1.0"])

\* C5: with no argument after the script name the script raises DolmaCliError and
\* neither loads a configuration nor calls main; with at least one argument no
\* usage error is raised.
C5_UsageErrorIffNoArgument ==
  /\ (Len(argv) < 2 /\ pc \notin {"start", "parse"}) =>
        /\ pc = "raised"
        /\ err = "DolmaCliError"
        /\ CallsOf({"clean_opt", "TrainConfig.load", "main"}) = {}
        /\ cfg = None
  /\ Len(argv) >= 2 => err # "DolmaCliError"

C5_Witness == /\ Len(argv) = 1
              /\ pc = "raised"
              /\ err = "DolmaCliError"

\* C6: main handles no exception: a call that raises is the last call made, the
\* error leaves main, a configuration with an unrecognized scheduler or algorithm
\* name never gets a Trainer or a fit, and when trainer.fit raises neither
\* trainer.close nor a completion message follows.
C6_ErrorsPropagate ==
  /\ \A i \in DOMAIN log : log[i].out = "raised" => (i = Len(log) /\ err = "FrameworkError")
  /\ err # "none" <=> pc = "raised"
  /\ ( \/ cfg.scheduler.name \notin RecognizedSchedulers
       \/ \E i \in DOMAIN algorithm_items(cfg) : algorithm_items(cfg)[i][1] \notin RecognizedAlgorithms ) =>
        /\ CallsOf({"Trainer", "trainer.fit"}) = {}
        /\ trainer = None
        /\ pc # "done"
  /\ (\E i \in Calls("trainer.fit") : log[i].out = "raised") =>
        CallsOf({"trainer.close", "echo.success"}) = {}

C6_Witness == /\ pc = "raised"
              /\ log[Len(log)] = Entry("trainer.fit", <<>>, "raised")
              /\ trainer # None

\* C7: the first argument is the configuration path; the following arguments, in
\* order and each through clean_opt once, are the overrides given to
\* TrainConfig.load; main is called once, with the configuration load returned.
C7_ArgumentsReachLoad ==
  /\ Count("TrainConfig.load") <= 1
  /\ Count("main") <= 1
  /\ \A i \in Calls("TrainConfig.load") :
        /\ log[i].args.path = argv[2]
        /\ log[i].args.overrides = [k \in 1..(Len(argv) - 2) |-> clean_opt(argv[k + 2])]
        /\ SelectSeq(log, IsCleanOpt) = [k \in 1..(Len(argv) - 2) |-> Entry("clean_opt", argv[k + 2], "returned")]
        /\ \A k \in Calls("clean_opt") : k < i
  /\ \A j \in Calls("main") : \E i \in Calls("TrainConfig.load") :
        /\ i < j
        /\ log[i].out = "returned"
        /\ log[j].args = log[i].ret
  /\ (Returned("TrainConfig.load") /\ pc # "call_main") => Count("main") = 1

C7_Witness == /\ Count("main") = 1
              /\ Len(argv) = 4
              /\ argv[3] # argv[4]

ExpectedRunName ==
  IF MainCfg.run_name # None THEN MainCfg.run_name
  ELSE IF "COMPOSER_RUN_NAME" \in DOMAIN env THEN Some(env["COMPOSER_RUN_NAME"])
  ELSE Some("llm")

\* C8: the run name given to the Trainer is cfg.run_name when configured (the
\* environment is then not consulted), else the value of COMPOSER_RUN_NAME when
\* set, else "llm"; after lines 82-83 cfg.run_name is never None.
C8_RunNameDefaulting ==
  /\ \A i \in Calls("Trainer") : log[i].args.run_name = ExpectedRunName
  /\ MainCfg.run_name # None => Calls("os.environ.get") = {}
  /\ (Returned("dist.initialize_dist") /\ pc # "run_name") =>
        /\ cfg.run_name # None
        /\ cfg.run_name = ExpectedRunName

C8_Witness == /\ trainer # None
              /\ MainCfg.run_name = None
              /\ trainer[1].run_name = Some("composer-run")

\* C9: in a run of main in which nothing raises, the Trainer is constructed once,
\* fit is called once unless dry_run, close is called once after them, and one
\* completion message, matching dry_run, is emitted last.
C9_NormalRunShape ==
  pc = "done" =>
    /\ Count("Trainer") = 1
    /\ Count("trainer.fit") = (IF cfg.dry_run THEN 0 ELSE 1)
    /\ Count("trainer.close") = 1
    /\ Count("echo.success") = 1
    /\ \A i \in DOMAIN log : log[i].out # "raised"
    /\ \A t \in Calls("Trainer"), c \in Calls("trainer.close"), m \in Calls("echo.success") :
          /\ t < c
          /\ c < m
          /\ m = Len(log)
          /\ log[m].args = (IF cfg.dry_run THEN "Dry run complete" ELSE "Training complete")
          /\ \A f \in Calls("trainer.fit") : t < f /\ f < c

C9_Witness == /\ pc = "done"
              /\ cfg.dry_run
              /\ Count("trainer.fit") = 0
              /\ Count("trainer.close") = 1

BuildCalls == {"update_batch_size_info", "ComposerDolmaGPT", "configure_optimizer", "build_dataloader", "Trainer"} \cup SchedulerClasses \cup AlgorithmClasses

RankQueries == {"dist.get_local_rank", "dist.get_local_world_size", "dist.get_global_rank", "dist.get_world_size"}

====
